---- MODULE Spec2Model ----
(***************************************************************************)
(* State-machine model of server.py: the /analyze-farm handler             *)
(* (analyze_farm), one request from arrival to response.  The handler is   *)
(* cut at its blocking remote calls: each action is the code from one      *)
(* remote call's return up to the next remote call (or to the response),   *)
(* and the remote call's outcome is the action's input.                    *)
(*                                                                         *)
(* Numbers.  Index values and NDVI bounds are counted in units of 0.0001   *)
(* (the precision of round(val, 4)).  A raw spatial mean, before rounding, *)
(* is counted in thirds of that unit, so that no raw value is a decimal    *)
(* tie (a binary float is not one either).                                 *)
(***************************************************************************)
EXTENDS Integers, Sequences, FiniteSets

\* ------------------------------------------------------------------ bounds

\* Raw spatial means range over -MaxRaw..MaxRaw (thirds of 0.0001).
MaxRaw == 5
\* NDVI bounds of the reference table range over 0..MaxBound (units of 0.0001).
MaxBound == 1
\* The scene count the imagery platform reports ranges over 0..MaxScenes.
MaxScenes == 1

\* ------------------------------------------------------------ JSON values

\* A JSON number, JSON null (Python None), or a key that is not there.
Num(n) == [k |-> "num", v |-> n]
None == [k |-> "null", v |-> 0]
Absent == [k |-> "absent", v |-> 0]

\* dict.get(key): None when the key is not there.
Get(x) == IF x.k = "absent" THEN None ELSE x
\* dict.get(key, default)
GetDefault(x, d) == IF x.k = "absent" THEN d ELSE x

\* ---------------------------------------------------------------- strings

\* A string is a sequence of one-character strings.
LowerChar(c) == CASE c = "W" -> "w" [] c = "C" -> "c" [] OTHER -> c
UpperChar(c) == CASE c = "w" -> "W" [] c = "c" -> "C" [] OTHER -> c

\* str.lower()
Lower(s) == [i \in 1..Len(s) |-> LowerChar(s[i])]
\* str.capitalize(): first character upper-cased, the rest lower-cased
Capitalize(s) == [i \in 1..Len(s) |-> IF i = 1 THEN UpperChar(s[i]) ELSE LowerChar(s[i])]

wheat == <<"w", "h", "e", "a", "t">>
Wheat == <<"W", "h", "e", "a", "t">>
corn == <<"c", "o", "r", "n">>

\* A request field holding a string, null, a number, or not there at all.
Str(s) == [t |-> "str", s |-> s]
NoField == [t |-> "absent", s |-> <<>>]
NullField == [t |-> "null", s |-> <<>>]
NumField == [t |-> "num", s |-> <<>>]

\* The crop_type fields a request may carry: absent, null, a number, "",
\* a table key, a table key in another case, a string that is no table key.
CropFields == {NoField, NullField, NumField, Str(<<>>), Str(wheat), Str(Wheat), Str(corn)}

\* The coordinates fields a request may carry: absent, null, [], a ring of
\* four vertices, and a non-empty string (truthy, but no coordinate list).
Square == << <<30, 10>>, <<31, 10>>, <<31, 11>>, <<30, 11>> >>
List(v) == [t |-> "list", v |-> v]
NoCoords == [t |-> "absent", v |-> <<>>]
NullCoords == [t |-> "null", v |-> <<>>]
TextCoords == [t |-> "str", v |-> <<>>]
CoordFields == {NoCoords, NullCoords, List(<<>>), List(Square), TextCoords}

\* The bodies request.get_json() may meet: one it raises on (no JSON), JSON
\* that is no object, and an object with the two fields.
NoBody == [t |-> "invalid", coordinates |-> NoCoords, crop_type |-> NoField]
NonObjectBody == [t |-> "nonobject", coordinates |-> NoCoords, crop_type |-> NoField]
Bodies ==
    {NoBody, NonObjectBody}
        \cup [t : {"object"}, coordinates : CoordFields, crop_type : CropFields]

\* ------------------------------------------------------- reference table

\* crop_ranges: the keys of crop_ndvi_ranges.json, each with an ndvi_min and
\* an ndvi_max: a number, or not there (the file is not validated, so the
\* two may also come in either order).
KnownCrops == {wheat}
BoundVals == {None} \cup {Num(n) : n \in 0..MaxBound}
Tables == [KnownCrops -> [ndvi_min : BoundVals, ndvi_max : BoundVals]]

\* crop_ranges.get(crop_type, {}).get(key)
LookupMin(table, crop) == IF crop \in DOMAIN table THEN table[crop].ndvi_min ELSE None
LookupMax(table, crop) == IF crop \in DOMAIN table THEN table[crop].ndvi_max ELSE None

\* ------------------------------------------------------------ responses

\* An error message: its text and, for the missing-bands message, the two
\* lists formatted into it.
Msg(text) == [text |-> text, missing |-> <<>>, available |-> <<>>]
\* return jsonify({"error": msg}), status
Error(status, msg) == [status |-> status, body |-> [error |-> msg]]
NoResponse == [status |-> 0, body |-> [pending |-> TRUE]]

\* Mutant of HandleException: the status code is left off the return, so the
\* error body goes out with the default status.
HandleException_NoStatus(msg) == Error(200, msg)

\* except Exception as e: return jsonify({"error": str(e)}), 500
HandleException(msg) == Error(500, msg)

\* -------------------------------------------------------- input validation

\* not x, for a coordinates field: absent (None), null and [] are falsy.
Falsy(coords) == coords.t \in {"absent", "null"} \/ (coords.t = "list" /\ coords.v = <<>>)

\* Mutant of Validate: the crop type is tested for being absent only after
\* the default "" has replaced an absent one, so no crop type is ever refused.
Validate_CropUnchecked(body) ==
    IF body.t = "invalid" THEN HandleException(Msg("400 Bad Request"))
    ELSE IF body.t = "nonobject" THEN HandleException(Msg("object has no attribute 'get'"))
    ELSE IF body.crop_type.t \in {"null", "num"}
        THEN HandleException(Msg("object has no attribute 'lower'"))
    ELSE IF Falsy(body.coordinates) THEN Error(400, Msg("No coordinates provided"))
    ELSE IF body.coordinates.t # "list" THEN HandleException(Msg("Invalid GeoJSON geometry"))
    ELSE NoResponse

\* Lines 25-38, up to the first remote call: the response the handler
\* returns there, or NoResponse when it goes on to the imagery platform.
\*   data = request.get_json()          raises on a body that is no JSON
\*   data.get(...)                      AttributeError on a non-object
\*   data.get("crop_type", "").lower()  AttributeError on null or a number
\*   ee.Geometry.Polygon(coords)        raises on what is no coordinate list
Validate(body) ==
    IF body.t = "invalid" THEN HandleException(Msg("400 Bad Request"))
    ELSE IF body.t = "nonobject" THEN HandleException(Msg("object has no attribute 'get'"))
    ELSE IF body.crop_type.t \in {"null", "num"}
        THEN HandleException(Msg("object has no attribute 'lower'"))
    ELSE IF Falsy(body.coordinates) THEN Error(400, Msg("No coordinates provided"))
    ELSE IF Lower(body.crop_type.s) = <<>> THEN Error(400, Msg("No crop type provided"))
    ELSE IF body.coordinates.t # "list" THEN HandleException(Msg("Invalid GeoJSON geometry"))
    ELSE NoResponse

\* ---------------------------------------------------------------- imagery

\* bands = ["B2", "B3", "B4", "B8", "B11"]
bands == <<"B2", "B3", "B4", "B8", "B11">>
\* The band names a composite may carry, in the platform's order.
AllBands == <<"B2", "B3", "B4", "B8", "B11", "B12">>
Range(s) == {s[i] : i \in 1..Len(s)}
Keep(s, S) == SelectSeq(s, LAMBDA b : b \in S)
BandLists == {Keep(AllBands, S) : S \in SUBSET Range(AllBands)}

\* Mutant of Missing: the test is inverted, listing the bands that are there.
Missing_Inverted(available) == SelectSeq(bands, LAMBDA b : b \in Range(available))

\* missing = [b for b in bands if b not in available_bands]
Missing(available) == SelectSeq(bands, LAMBDA b : b \notin Range(available))

\* f"Missing bands: {missing}. Available: {available_bands}", 500
MissingBandsResponse(available) ==
    Error(500, [text |-> "Missing bands", missing |-> Missing(available),
                available |-> available])

\* Mutant of NoImagery: the empty collection is tested with < 0.
NoImagery_Negative(n) == n < 0

\* collection.size().getInfo() == 0
NoImagery(n) == n = 0
NoImageryResponse ==
    Error(404, Msg("No Sentinel-2 images found for the given area/date range."))

\* The keys of mean_stats the handler reads.
StatKeys == {"NDVI", "EVI", "NDWI", "MSI", "B3", "B4", "B8"}
RawVals == -MaxRaw..MaxRaw
\* The reductions the platform may return: any NDVI mean or none, and each
\* other mean there or not.
OtherRaw == MaxRaw - 1
StatsSet ==
    {[k \in StatKeys |-> IF k = "NDVI" THEN n ELSE IF k \in S THEN Num(OtherRaw) ELSE None] :
        n \in {None} \cup {Num(r) : r \in RawVals}, S \in SUBSET (StatKeys \ {"NDVI"})}
NoStats == [k \in StatKeys |-> None]

\* round(val, 4): the nearest multiple of 0.0001 to a raw value in thirds
Round4(r) == (r + 1) \div 3

\* def safe_val(name): round(val, 4) if val is not None else 0.0
safe_val(stats, name) ==
    IF stats[name].k = "num" THEN Round4(stats[name].v) ELSE 0

\* ---------------------------------------------------------------- weather

WeatherKeys == {"temperature_2m", "relative_humidity_2m", "wind_speed_10m", "rain"}
EmptyDict == [k \in WeatherKeys |-> Absent]
\* The `current` objects the weather service may send: each reading there
\* (the same number for all) or not.
Currents == [WeatherKeys -> {Absent, Num(28)}]
Field(t, f) == [t |-> t, f |-> f]
\* What requests.get(weather_url).json() may come to:
\*   raised     requests.get raises (no connection)
\*   notjson    .json() raises on the body
\*   nonobject  JSON that is no object (a list, null, a number)
\*   object     a JSON object; its `current` field is not there, null, a
\*              value that is no object, or an object
WeatherResults ==
    {[t |-> t, cur |-> Field("absent", EmptyDict)] : t \in {"raised", "notjson", "nonobject"}}
        \cup {[t |-> "object", cur |-> Field(t, EmptyDict)] : t \in {"absent", "null", "nonobject"}}
        \cup {[t |-> "object", cur |-> Field("object", f)] : f \in Currents}
NoWeather == [t |-> "unset", cur |-> Field("absent", EmptyDict)]

\* Mutant of CurrentOf: weather_res.get("current") or {}, which also turns
\* a null or otherwise falsy `current` into an empty object.
CurrentOf_OrEmpty(w) ==
    IF w.cur.t \in {"absent", "null"} THEN Field("object", EmptyDict) ELSE w.cur

\* current = weather_res.get("current", {})
CurrentOf(w) == IF w.cur.t = "absent" THEN Field("object", EmptyDict) ELSE w.cur

\* Lines 97-101 raise: requests.get or .json() raises, weather_res has no
\* .get, or current has no .get.
WeatherRaises(w) == w.t # "object" \/ CurrentOf(w).t # "object"

\* "weather": {...} of the response, from current
WeatherSnapshot(cur) ==
    [temperature |-> GetDefault(cur["temperature_2m"], Num(0)),
     humidity |-> Get(cur["relative_humidity_2m"]),
     wind_speed |-> Get(cur["wind_speed_10m"]),
     rain |-> GetDefault(cur["rain"], Num(0))]

\* --------------------------------------------------------- classification

Status(kind, crop) == [kind |-> kind, crop |-> crop]
Raised == [raised |-> TRUE, status |-> Status("none", <<>>)]
Result(st) == [raised |-> FALSE, status |-> st]

\* Mutant of Classify: the upper bound is exclusive.
Classify_Exclusive(crop, mean_ndvi, lo, hi) ==
    IF lo.k # "num" THEN Raised
    ELSE IF mean_ndvi < lo.v THEN Result(Status("unhealthy", Capitalize(crop)))
    ELSE IF hi.k # "num" THEN Raised
    ELSE IF mean_ndvi < hi.v THEN Result(Status("healthy", Capitalize(crop)))
    ELSE Result(Status("excess", <<>>))

\* Lines 105-110.  A comparison of a number with None raises TypeError; the
\* chained comparison evaluates ndvi_min <= mean_ndvi first.
Classify(crop, mean_ndvi, lo, hi) ==
    IF lo.k # "num" THEN Raised
    ELSE IF mean_ndvi < lo.v THEN Result(Status("unhealthy", Capitalize(crop)))
    ELSE IF ~(lo.v <= mean_ndvi) THEN Result(Status("excess", <<>>))
    ELSE IF hi.k # "num" THEN Raised
    ELSE IF mean_ndvi <= hi.v THEN Result(Status("healthy", Capitalize(crop)))
    ELSE Result(Status("excess", <<>>))

\* Mutant of Indices: GREEN is read from the red band.
Indices_WrongBand(stats) ==
    [NDVI |-> safe_val(stats, "NDVI"),
     EVI |-> safe_val(stats, "EVI"),
     NDWI |-> safe_val(stats, "NDWI"),
     MSI |-> safe_val(stats, "MSI"),
     GREEN |-> safe_val(stats, "B4"),
     RED |-> safe_val(stats, "B4"),
     NIR |-> safe_val(stats, "B8")]

\* The "indices" mapping of lines 113-121.
Indices(stats) ==
    [NDVI |-> safe_val(stats, "NDVI"),
     EVI |-> safe_val(stats, "EVI"),
     NDWI |-> safe_val(stats, "NDWI"),
     MSI |-> safe_val(stats, "MSI"),
     GREEN |-> safe_val(stats, "B3"),
     RED |-> safe_val(stats, "B4"),
     NIR |-> safe_val(stats, "B8")]

\* Lines 112-131: return jsonify({...}) (status 200)
Assessment(crop, stats, cur, lo, hi, st) ==
    [status |-> 200,
     body |-> [indices |-> Indices(stats),
               weather |-> WeatherSnapshot(cur),
               crop_type |-> crop,
               healthy_range |-> <<lo, hi>>,
               health_status |-> st]]

\* Lines 97-134, from the weather service's answer to the response.
Finish(crop, stats, w, lo, hi) ==
    IF WeatherRaises(w) THEN HandleException(Msg("weather"))
    ELSE IF Classify(crop, safe_val(stats, "NDVI"), lo, hi).raised
        THEN HandleException(Msg("'<' not supported between instances of 'float' and 'NoneType'"))
    ELSE Assessment(crop, stats, CurrentOf(w).f, lo, hi,
                    Classify(crop, safe_val(stats, "NDVI"), lo, hi).status)

\* ------------------------------------------------------------------ state

VARIABLES
    crop_ranges,      \* the table loaded at start (lines 19-20)
    pc,               \* where the handler is
    data,             \* the request body
    crop_type,        \* line 27
    ndvi_min,         \* line 34
    ndvi_max,         \* line 35
    scenes,           \* collection.size().getInfo()
    available_bands,  \* line 55
    mean_stats,       \* line 78
    weather_res,      \* line 97
    calls,            \* the outbound round trips made, in order
    response          \* what the handler returned

vars == <<crop_ranges, pc, data, crop_type, ndvi_min, ndvi_max, scenes,
          available_bands, mean_stats, weather_res, calls, response>>

\* One outbound round trip, and whether it returned (ok) or raised.
Call(name, ok) == [name |-> name, ok |-> ok]
\* Mutant of Issue: a round trip that raises is tried a second time.
Issue_Retry(log, name, ok) ==
    IF ok THEN Append(log, Call(name, ok))
    ELSE Append(Append(log, Call(name, ok)), Call(name, ok))
Issue(log, name, ok) == Append(log, Call(name, ok))

Init ==
    /\ crop_ranges \in Tables
    /\ pc = "idle"
    /\ data = NoBody
    /\ crop_type = <<>>
    /\ ndvi_min = None
    /\ ndvi_max = None
    /\ scenes = 0
    /\ available_bands = <<>>
    /\ mean_stats = NoStats
    /\ weather_res = NoWeather
    /\ calls = <<>>
    /\ response = NoResponse

\* return ..., or the except clause: the handler ends with response r
Return(r) == response' = r /\ pc' = "done"

\* Lines 25-38: the request arrives, is read and validated, the range is
\* looked up and the polygon built.
Receive ==
    /\ pc = "idle"
    /\ \E body \in Bodies :
        /\ data' = body
        /\ crop_type' = Lower(body.crop_type.s)
        /\ IF Validate(body).status = 0
            THEN /\ ndvi_min' = LookupMin(crop_ranges, Lower(body.crop_type.s))
                 /\ ndvi_max' = LookupMax(crop_ranges, Lower(body.crop_type.s))
                 /\ pc' = "size"
                 /\ UNCHANGED response
            ELSE /\ Return(Validate(body))
                 /\ UNCHANGED <<ndvi_min, ndvi_max>>
    /\ UNCHANGED <<crop_ranges, scenes, available_bands, mean_stats, weather_res, calls>>

\* Lines 41-49: collection.size().getInfo() raises or returns n.
CollectionSize ==
    /\ pc = "size"
    /\ \/ /\ calls' = Issue(calls, "size", FALSE)
          /\ Return(HandleException(Msg("size")))
          /\ UNCHANGED scenes
       \/ \E n \in 0..MaxScenes :
            /\ calls' = Issue(calls, "size", TRUE)
            /\ scenes' = n
            /\ IF NoImagery(n)
                THEN Return(NoImageryResponse)
                ELSE pc' = "bands" /\ UNCHANGED response
    /\ UNCHANGED <<crop_ranges, data, crop_type, ndvi_min, ndvi_max,
                   available_bands, mean_stats, weather_res>>

\* Lines 51-58: image.bandNames().getInfo() raises or returns the names.
BandNames ==
    /\ pc = "bands"
    /\ \/ /\ calls' = Issue(calls, "bandNames", FALSE)
          /\ Return(HandleException(Msg("bandNames")))
          /\ UNCHANGED available_bands
       \/ \E names \in BandLists :
            /\ calls' = Issue(calls, "bandNames", TRUE)
            /\ available_bands' = names
            /\ IF Missing(names) # <<>>
                THEN Return(MissingBandsResponse(names))
                ELSE pc' = "reduce" /\ UNCHANGED response
    /\ UNCHANGED <<crop_ranges, data, crop_type, ndvi_min, ndvi_max,
                   scenes, mean_stats, weather_res>>

\* Lines 60-83: the index expressions are built (no round trip) and
\* reduceRegion(...).getInfo() raises or returns the means.
ReduceRegion ==
    /\ pc = "reduce"
    /\ \/ /\ calls' = Issue(calls, "reduceRegion", FALSE)
          /\ Return(HandleException(Msg("reduceRegion")))
          /\ UNCHANGED mean_stats
       \/ \E stats \in StatsSet :
            /\ calls' = Issue(calls, "reduceRegion", TRUE)
            /\ mean_stats' = stats
            /\ pc' = "centroid"
            /\ UNCHANGED response
    /\ UNCHANGED <<crop_ranges, data, crop_type, ndvi_min, ndvi_max,
                   scenes, available_bands, weather_res>>

\* Lines 90-91: polygon.centroid().coordinates().getInfo() raises or
\* returns the centroid.
Centroid ==
    /\ pc = "centroid"
    /\ \/ /\ calls' = Issue(calls, "centroid", FALSE)
          /\ Return(HandleException(Msg("centroid")))
       \/ /\ calls' = Issue(calls, "centroid", TRUE)
          /\ pc' = "weather"
          /\ UNCHANGED response
    /\ UNCHANGED <<crop_ranges, data, crop_type, ndvi_min, ndvi_max,
                   scenes, available_bands, mean_stats, weather_res>>

\* Lines 92-134: the weather request, then classification and assembly.
Weather ==
    /\ pc = "weather"
    /\ \E w \in WeatherResults :
        /\ calls' = Issue(calls, "weather", w.t # "raised")
        /\ weather_res' = w
        /\ Return(Finish(crop_type, mean_stats, w, ndvi_min, ndvi_max))
    /\ UNCHANGED <<crop_ranges, data, crop_type, ndvi_min, ndvi_max,
                   scenes, available_bands, mean_stats>>

Next == Receive \/ CollectionSize \/ BandNames \/ ReduceRegion \/ Centroid \/ Weather

Spec == Init /\ [][Next]_vars

\* ----------------------------------------------------------------- claims

CallNames == [i \in 1..Len(calls) |-> calls[i].name]
Called(name) == \E i \in 1..Len(calls) : calls[i].name = name
Returned(name) == \E i \in 1..Len(calls) : calls[i] = Call(name, TRUE)
ErrorBody(r) == DOMAIN r.body = {"error"}

\* C1: a request whose coordinates field is absent, null or empty ends, whatever
\* its crop_type field holds, with 400 "No coordinates provided", and no remote
\* call has been made.
C1_NoCoordinates ==
    (pc = "done" /\ data.t = "object" /\ Falsy(data.coordinates))
        => (response = Error(400, Msg("No coordinates provided")) /\ calls = <<>>)

\* C2: a request with non-empty coordinates whose crop_type is absent or ""
\* ends with 400 "No crop type provided", and no remote call has been made.
C2_NoCropType ==
    (pc = "done" /\ data.t = "object" /\ ~Falsy(data.coordinates)
        /\ data.crop_type \in {NoField, Str(<<>>)})
        => (response = Error(400, Msg("No crop type provided")) /\ calls = <<>>)
\* at every point of such a request, not only at its end
C2_NoCall ==
    (pc # "idle" /\ data.t = "object" /\ ~Falsy(data.coordinates)
        /\ data.crop_type \in {NoField, Str(<<>>)})
        => (pc = "done" /\ calls = <<>>)
C2_Theorem == C2_NoCropType /\ C2_NoCall
C2_Witness ==
    /\ pc = "done"
    /\ data.t = "object"
    /\ data.coordinates = List(Square)
    /\ data.crop_type = NoField
    /\ response.status = 400

\* The request went through both providers: every round trip returned and the
\* weather answer was an object with a `current` object (or none).
Evaluated ==
    /\ pc = "done"
    /\ Len(calls) = 5
    /\ \A i \in 1..5 : calls[i].ok
    /\ weather_res.t = "object"
    /\ weather_res.cur.t \in {"absent", "object"}

\* C3: with a known crop type (both bounds numbers), mean_ndvi < ndvi_min is
\* the unhealthy status, ndvi_min <= mean_ndvi <= ndvi_max the healthy one
\* (both bounds inclusive), anything else excessive greenness; exactly one of
\* the three is produced.
C3_Classification ==
    (Evaluated /\ ndvi_min.k = "num" /\ ndvi_max.k = "num")
        => /\ response.status = 200
           /\ LET m == safe_val(mean_stats, "NDVI")
                  st == response.body.health_status
              IN  /\ st.kind \in {"unhealthy", "healthy", "excess"}
                  /\ (m < ndvi_min.v) => st = Status("unhealthy", Capitalize(crop_type))
                  /\ (~(m < ndvi_min.v) /\ ndvi_min.v <= m /\ m <= ndvi_max.v)
                        => st = Status("healthy", Capitalize(crop_type))
                  /\ (~(m < ndvi_min.v) /\ ~(ndvi_min.v <= m /\ m <= ndvi_max.v))
                        => (st.kind = "excess" /\ m > ndvi_max.v)
C3_Witness ==
    /\ Evaluated
    /\ ndvi_min.k = "num" /\ ndvi_max.k = "num"
    /\ ndvi_min.v < ndvi_max.v
    /\ safe_val(mean_stats, "NDVI") = ndvi_max.v
    /\ mean_stats["NDVI"].k = "num"
    /\ response.status = 200
    /\ response.body.health_status.kind = "healthy"

\* C4: when the imagery platform reports zero scenes, the request ends with 404
\* and the no-imagery message, and the weather service is never called.
C4_NoImagery ==
    (Returned("size") /\ scenes = 0)
        => /\ pc = "done"
           /\ response = NoImageryResponse
           /\ ~Called("weather")
           /\ Len(calls) = 1
C4_Witness == pc = "done" /\ Returned("size") /\ scenes = 0 /\ response.status = 404

\* C5: when the composite lacks a required band, the request ends with 500 and
\* an error that lists exactly the required bands that are missing and the
\* bands that are available; no reduction and no weather call is made.
C5_MissingBands ==
    (Returned("bandNames") /\ ~(Range(bands) \subseteq Range(available_bands)))
        => /\ pc = "done"
           /\ response.status = 500
           /\ ErrorBody(response)
           /\ Range(response.body.error.missing) = Range(bands) \ Range(available_bands)
           /\ Len(response.body.error.missing)
                = Cardinality(Range(bands) \ Range(available_bands))
           /\ response.body.error.available = available_bands
           /\ ~Called("reduceRegion")
           /\ ~Called("weather")
C5_Witness ==
    /\ pc = "done"
    /\ Returned("bandNames")
    /\ available_bands = <<"B2", "B3", "B4", "B8", "B12">>
    /\ response.status = 500
    /\ response.body.error.missing = <<"B11">>

\* C6: every request ends in a complete assessment with status 200 or in a body
\* holding only an error with status 400, 404 or 500; nothing in between, and
\* the handler is never left without a way to a response.
AssessmentKeys == {"indices", "weather", "crop_type", "healthy_range", "health_status"}
C6_TwoShapes ==
    /\ pc = "done"
        => \/ response.status = 200 /\ DOMAIN response.body = AssessmentKeys
           \/ response.status \in {400, 404, 500} /\ ErrorBody(response)
    /\ pc # "done" => (response = NoResponse /\ ENABLED Next)
C6_Witness ==
    /\ pc = "done"
    /\ weather_res.t = "notjson"
    /\ response.status = 500
    /\ ErrorBody(response)

\* C7: a successful response's indices hold exactly the seven keys; a key whose
\* mean the platform returned as absent is reported as 0.0; and the NDVI that
\* was classified is the NDVI that is reported.
IndexKeys == {"NDVI", "EVI", "NDWI", "MSI", "GREEN", "RED", "NIR"}
StatOf(key) ==
    CASE key = "GREEN" -> "B3" [] key = "RED" -> "B4" [] key = "NIR" -> "B8" [] OTHER -> key
C7_Indices ==
    (pc = "done" /\ response.status = 200)
        => LET ix == response.body.indices
               st == response.body.health_status
           IN  /\ DOMAIN ix = IndexKeys
               /\ \A key \in IndexKeys :
                    /\ ix[key] \in Int
                    /\ mean_stats[StatOf(key)].k # "num" => ix[key] = 0
               /\ st.kind = "unhealthy" <=> ix["NDVI"] < ndvi_min.v
               /\ st.kind = "healthy" <=> (ndvi_min.v <= ix["NDVI"] /\ ix["NDVI"] <= ndvi_max.v)
C7_Witness ==
    /\ pc = "done"
    /\ response.status = 200
    /\ mean_stats["B3"].k # "num"
    /\ mean_stats["B4"].k = "num"
    /\ mean_stats["NDVI"].k # "num"
    /\ response.body.indices["GREEN"] = 0
    /\ response.body.indices["RED"] # 0

\* C8: a non-empty crop type that is no key of the table gets a null range, and
\* when imagery and weather succeed the request does not end in an error.
C8_UnknownCrop ==
    (Evaluated /\ weather_res.cur.t = "object"
        /\ crop_type # <<>> /\ crop_type \notin DOMAIN crop_ranges)
        => (ndvi_min = None /\ ndvi_max = None /\ response.status = 200)

\* C9: when the weather service raises or answers with what is not JSON, not a
\* JSON object, or a JSON object without a well-formed `current`, the request
\* ends with a 500 error and no assessment, the weather call made exactly once.
WeatherCalls == Cardinality({i \in 1..Len(calls) : calls[i].name = "weather"})
C9_Original ==
    (pc = "done" /\ Called("weather")
        /\ (weather_res.t \in {"raised", "notjson", "nonobject"}
            \/ weather_res.cur.t # "object"))
        => (response.status = 500 /\ ErrorBody(response) /\ WeatherCalls = 1)
\* C9, amended: the same for a `current` that is there but is no object; a
\* JSON object without any `current` is not a failure.
C9_Amended ==
    (pc = "done" /\ Called("weather")
        /\ (weather_res.t \in {"raised", "notjson", "nonobject"}
            \/ weather_res.cur.t \in {"null", "nonobject"}))
        => (response.status = 500 /\ ErrorBody(response) /\ WeatherCalls = 1)
C9_Witness ==
    /\ pc = "done"
    /\ weather_res.t = "object"
    /\ weather_res.cur.t = "null"
    /\ ndvi_min.k = "num" /\ ndvi_max.k = "num"
    /\ response.status = 500
    /\ WeatherCalls = 1

\* C10: a request that passes validation makes two outbound calls, one imagery
\* request and then one weather request, and no other round trip.
Validated == pc # "idle" /\ Validate(data).status = 0
C10_Original ==
    (pc = "done" /\ Validated)
        => /\ Len(calls) = 2
           /\ calls[1].name \in {"size", "bandNames", "reduceRegion", "centroid"}
           /\ calls[1].ok
           /\ calls[2].name = "weather"
\* C10, amended: the round trips are made one after another in the order scene
\* count, band names, region reduction, centroid (all to the imagery platform),
\* weather; each is made only after the one before returned, with a scene found
\* and no band missing; no round trip is made twice, none before validation
\* has passed, and a request that ends in an assessment has made all five.
CallOrder == <<"size", "bandNames", "reduceRegion", "centroid", "weather">>
C10_Amended ==
    /\ Len(calls) <= 5
    /\ CallNames = SubSeq(CallOrder, 1, Len(calls))
    /\ \A i \in 1..Len(calls) - 1 : calls[i].ok
    /\ calls # <<>> => Validated
    /\ (pc = "done" /\ Validated) => calls # <<>>
    /\ Len(calls) >= 2 => scenes > 0
    /\ Len(calls) >= 3 => Range(bands) \subseteq Range(available_bands)
    /\ (pc = "done" /\ response.status = 200) => Len(calls) = 5
C10_Witness ==
    /\ pc = "done"
    /\ response.status = 200
    /\ CallNames = CallOrder

====
